---- MODULE Spec2Model ----
(***************************************************************************)
(* A model of rich.log.Log (src/rich/log.py): a scrolling buffer of        *)
(* rendered lines guarded by a re-entrant lock.  add() renders its         *)
(* renderables with the Log's own console and appends the lines, then      *)
(* trims the buffer to scrollback; __rich_console__ is a generator that    *)
(* takes the lock, slices the last `height` lines and yields them one by   *)
(* one, keeping the lock while it is suspended at a yield.                 *)
(*                                                                         *)
(* Threads call add and consume render passes; a thread may call add while *)
(* a pass it consumes is suspended at a yield.  Each thread consumes one   *)
(* pass at a time.  The arguments of a call are chosen where the code      *)
(* first reads them (the renderables in _render, the heights at line 62).  *)
(* A rendered line is identified by the add call, the renderable and the   *)
(* row it is; the width of the console decides how many rows a renderable  *)
(* takes.  The record of a call or of a pass is dropped when it ends.      *)
(***************************************************************************)
EXTENDS Integers, Sequences, FiniteSets, TLC

(* ------------------------------ bounds -------------------------------- *)
MaxAdds == 2
MaxRenders == 1
MaxScrollback == 2
MaxHeight == 2

(* ----------------------------- constants ------------------------------ *)
\* Optional[int] None (scrollback, options.height), kept apart from every int >= 0
None == -1
\* a renderable whose conversion to lines raises
Bad == 0

Threads == {"t1", "t2"}
NoThread == "none"
\* widths of a console; a text of length 2 wraps to two lines at width 1
Widths == {1, 2}
\* the argument tuples of add(*renderables): each renderable a text of length 1 or 2, or Bad
ArgLists == {<<1>>, <<2, 1>>, <<1, Bad>>}
Scrollbacks == {None} \cup (0..MaxScrollback)
OptHeights == {None} \cup (0..MaxHeight)
ConsoleHeights == 0..MaxHeight

VARIABLES
    scrollback,   \* self.scrollback
    console,      \* self.console: the width of the Log's own console
    buffer,       \* self._buffer
    lock,         \* self._lock: [owner, count] of the RLock
    adds,         \* per thread: the add call it is in (seen, width: history, the
                  \*   buffer when it took the lock and the width it rendered at)
    passes,       \* per thread: the render pass (generator) it is consuming
                  \*   (seen: history, the buffer when it read it)
    nAdds,        \* number of add calls started (their ids are 1..nAdds)
    nRenders,     \* number of render passes started
    produced,     \* history: every line appended to the buffer, in order
    returned,     \* history: ids of the add calls that have returned
    before        \* history: for each add id, the adds returned when it started

vars == <<scrollback, console, buffer, lock, adds, passes, nAdds, nRenders,
          produced, returned, before>>

(* ------------------------- python list slicing ------------------------ *)
Min(a, b) == IF a < b THEN a ELSE b
Max(a, b) == IF a > b THEN a ELSE b

\* a slice bound i normalised against a list of length n
SliceIndex(i, n) == IF i < 0 THEN Max(i + n, 0) ELSE Min(i, n)

\* del s[:stop]
DelPrefix(s, stop) == SubSeq(s, SliceIndex(stop, Len(s)) + 1, Len(s))

\* s[start:]
SliceFrom(s, start) == SubSeq(s, SliceIndex(start, Len(s)) + 1, Len(s))

(* ------------------------------ rendering ----------------------------- *)
\* number of lines of a text of length n at width w
NumRows(n, w) == (n + w - 1) \div w

\* console.render_lines(renderable, style=style, new_lines=True): the rows of
\* renderable number j of add call id, wrapped at width w
RenderLines(id, j, renderable, w) ==
    [r \in 1..NumRows(renderable, w) |-> [item |-> id, arg |-> j, row |-> r]]

(* -------------------------------- RLock ------------------------------- *)
\* mutant of CanAcquire: the lock is not checked
CanAcquireAny(t) == TRUE

\* mutant of CanAcquire: a plain Lock, which its owner cannot take again
CanAcquireFree(t) == lock.owner = NoThread

CanAcquire(t) == lock.owner \in {NoThread, t}
Acquire(t) == [owner |-> t, count |-> lock.count + 1]
Release(t) == IF lock.count = 1
              THEN [owner |-> NoThread, count |-> 0]
              ELSE [owner |-> t, count |-> lock.count - 1]

(* -------------------------------- state ------------------------------- *)
IdleAdd == [pc |-> "idle", id |-> 0, renderables |-> <<>>, width |-> 0,
            rendered_lines |-> <<>>, seen |-> <<>>]
IdlePass == [pc |-> "idle", optHeight |-> None, height |-> 0,
             lines |-> <<>>, out |-> <<>>, seen |-> <<>>]

Init ==
    /\ scrollback \in Scrollbacks
    /\ console \in Widths
    /\ buffer = <<>>
    /\ lock = [owner |-> NoThread, count |-> 0]
    /\ adds = [t \in Threads |-> IdleAdd]
    /\ passes = [t \in Threads |-> IdlePass]
    /\ nAdds = 0
    /\ nRenders = 0
    /\ produced = <<>>
    /\ returned = {}
    /\ before = <<>>

(* --------------------------------- add -------------------------------- *)
\* the generator of thread t is suspended at a yield: it has handed a line to its consumer
Suspended(t) == passes[t].pc = "yield" /\ Len(passes[t].out) >= 1

\* a thread calls log.add(...); it may do so while a pass it consumes is suspended
AddCall(t) ==
    /\ adds[t].pc = "idle"
    /\ passes[t].pc = "idle" \/ Suspended(t)
    /\ nAdds < MaxAdds
    /\ nAdds' = nAdds + 1
    /\ adds' = [adds EXCEPT ![t] = [IdleAdd EXCEPT !.pc = "lock", !.id = nAdds + 1]]
    /\ before' = Append(before, returned)
    /\ UNCHANGED <<scrollback, console, buffer, lock, passes, nRenders, produced, returned>>

\* with self._lock:
AddAcquire(t) ==
    /\ adds[t].pc = "lock"
    /\ CanAcquire(t)
    /\ lock' = Acquire(t)
    /\ adds' = [adds EXCEPT ![t].pc = "render", ![t].seen = buffer]
    /\ UNCHANGED <<scrollback, console, buffer, passes, nAdds, nRenders, produced, returned, before>>

\* the renderables before the first that fails to render (all, if none fails)
RECURSIVE Renderable(_)
Renderable(rs) ==
    IF rs = <<>> \/ Head(rs) = Bad THEN <<>> ELSE <<Head(rs)>> \o Renderable(Tail(rs))

\* _render(console, renderables) after its loop has taken the first n renderables
RECURSIVE Rendered(_, _, _, _)
Rendered(id, rs, n, w) ==
    IF n = 0 THEN <<>>
    ELSE Rendered(id, rs, n - 1, w) \o RenderLines(id, n, rs[n], w)

\* mutant of LogConsole: add renders with a console other than the Log's own
OtherConsole == CHOOSE w \in Widths : w # console

\* the console add renders with: self.console
LogConsole == console

\* self._render(self.console, renderables) returns
AddRender(t, rs) ==
    /\ adds[t].pc = "render"
    /\ Len(Renderable(rs)) = Len(rs)
    /\ adds' = [adds EXCEPT
                  ![t].pc = "extend",
                  ![t].renderables = rs,
                  ![t].width = console,
                  ![t].rendered_lines = Rendered(adds[t].id, rs, Len(rs), LogConsole)]
    /\ UNCHANGED <<scrollback, console, buffer, lock, passes, nAdds, nRenders, produced, returned, before>>

\* mutant of AddRenderRaise: the lines of the renderables before the failing one are
\* already in the buffer when the exception leaves add
AddRenderRaisePartial(t, rs) ==
    /\ adds[t].pc = "render"
    /\ Len(Renderable(rs)) < Len(rs)
    /\ buffer' = buffer \o Rendered(adds[t].id, rs, Len(Renderable(rs)), console)
    /\ lock' = Release(t)
    /\ adds' = [adds EXCEPT ![t] = IdleAdd]
    /\ UNCHANGED <<scrollback, console, passes, nAdds, nRenders, produced, returned, before>>

\* console.render_lines raises in _render: the exception leaves add through the with block
AddRenderRaise(t, rs) ==
    /\ adds[t].pc = "render"
    /\ Len(Renderable(rs)) < Len(rs)
    /\ lock' = Release(t)
    /\ adds' = [adds EXCEPT ![t] = IdleAdd]
    /\ UNCHANGED <<scrollback, console, buffer, passes, nAdds, nRenders, produced, returned, before>>

\* mutant of Extend: the new lines are put in front of the buffer
ExtendFront(buf, lines) == lines \o buf

\* mutant of Extend: add appends nothing (the lines stay pending)
ExtendNone(buf, lines) == buf

\* self._buffer.extend(rendered_lines)
Extend(buf, lines) == buf \o lines

AddExtend(t) ==
    /\ adds[t].pc = "extend"
    /\ buffer' = Extend(buffer, adds[t].rendered_lines)
    /\ produced' = produced \o adds[t].rendered_lines
    /\ adds' = [adds EXCEPT ![t].pc = "trim"]
    /\ UNCHANGED <<scrollback, console, lock, passes, nAdds, nRenders, returned, before>>

\* mutant of Trim: the test for None is missing
TrimUnchecked(buf) == DelPrefix(buf, -scrollback)

\* if self.scrollback is not None: del self._buffer[: -self.scrollback]
Trim(buf) == IF scrollback # None THEN DelPrefix(buf, -scrollback) ELSE buf

\* mutant of AddTrim: the test for None is missing and `-self.scrollback` raises
\* TypeError when scrollback is None; the exception leaves add through the with block
AddTrimRaise(t) ==
    /\ adds[t].pc = "trim"
    /\ IF scrollback = None
       THEN /\ lock' = Release(t)
            /\ adds' = [adds EXCEPT ![t] = IdleAdd]
            /\ UNCHANGED buffer
       ELSE /\ buffer' = DelPrefix(buffer, -scrollback)
            /\ adds' = [adds EXCEPT ![t].pc = "release"]
            /\ UNCHANGED lock
    /\ UNCHANGED <<scrollback, console, passes, nAdds, nRenders, produced, returned, before>>

AddTrim(t) ==
    /\ adds[t].pc = "trim"
    /\ buffer' = Trim(buffer)
    /\ adds' = [adds EXCEPT ![t].pc = "release"]
    /\ UNCHANGED <<scrollback, console, lock, passes, nAdds, nRenders, produced, returned, before>>

\* the with block ends and add returns
AddRelease(t) ==
    /\ adds[t].pc = "release"
    /\ lock' = Release(t)
    /\ returned' = returned \cup {adds[t].id}
    /\ adds' = [adds EXCEPT ![t] = IdleAdd]
    /\ UNCHANGED <<scrollback, console, buffer, passes, nAdds, nRenders, produced, before>>

(* --------------------------- __rich_console__ ------------------------- *)
\* height = options.height or console.height
Height(optHeight, conHeight) ==
    IF optHeight # None /\ optHeight # 0 THEN optHeight ELSE conHeight

\* a thread starts to consume log.__rich_console__(console, options)
RenderCall(t) ==
    /\ adds[t].pc = "idle"
    /\ passes[t].pc = "idle"
    /\ nRenders < MaxRenders
    /\ nRenders' = nRenders + 1
    /\ passes' = [passes EXCEPT ![t] =
                    [IdlePass EXCEPT !.pc = "lock"]]
    /\ UNCHANGED <<scrollback, console, buffer, lock, adds, nAdds, produced, returned, before>>

\* self._buffer[-height:]
Window(buf, height) == SliceFrom(buf, -height)

\* with self._lock: for line in self._buffer[-height:]
RenderAcquire(t, oh, ch) ==
    /\ passes[t].pc = "lock"
    /\ adds[t].pc = "idle"
    /\ CanAcquire(t)
    /\ lock' = Acquire(t)
    /\ passes' = [passes EXCEPT ![t] =
                    [pc |-> "yield", optHeight |-> oh, height |-> Height(oh, ch),
                     lines |-> Window(buffer, Height(oh, ch)), out |-> <<>>,
                     seen |-> buffer]]
    /\ UNCHANGED <<scrollback, console, buffer, adds, nAdds, nRenders, produced, returned, before>>

\* mutant of NextLine: the loop reads the live buffer instead of the slice it took
NextLineLive(t, k) ==
    LET live == SliceFrom(buffer, -passes[t].height)
    IN  live[Min(k + 1, Len(live))]

\* the line the loop yields after k lines
NextLine(t, k) == passes[t].lines[k + 1]

\* yield from line (a line is handed over whole: its segments are not told apart)
RenderYield(t) ==
    /\ passes[t].pc = "yield"
    /\ adds[t].pc = "idle"
    /\ Len(passes[t].out) < Len(passes[t].lines)
    /\ passes' = [passes EXCEPT ![t].out = Append(@, NextLine(t, Len(passes[t].out)))]
    /\ UNCHANGED <<scrollback, console, buffer, lock, adds, nAdds, nRenders, produced, returned, before>>

\* mutant of RenderFinish: the pass consumes the lines it has emitted
RenderFinishDrain(t) ==
    /\ passes[t].pc = "yield"
    /\ adds[t].pc = "idle"
    /\ Len(passes[t].out) = Len(passes[t].lines)
    /\ buffer' = SubSeq(buffer, 1, Len(buffer) - Min(Len(buffer), Len(passes[t].out)))
    /\ lock' = Release(t)
    /\ passes' = [passes EXCEPT ![t] = IdlePass]
    /\ UNCHANGED <<scrollback, console, adds, nAdds, nRenders, produced, returned, before>>

\* the loop is exhausted: the with block ends and the generator returns
RenderFinish(t) ==
    /\ passes[t].pc = "yield"
    /\ adds[t].pc = "idle"
    /\ Len(passes[t].out) = Len(passes[t].lines)
    /\ lock' = Release(t)
    /\ passes' = [passes EXCEPT ![t] = IdlePass]
    /\ UNCHANGED <<scrollback, console, buffer, adds, nAdds, nRenders, produced, returned, before>>

\* the consumer closes the generator early: GeneratorExit leaves the with block
RenderClose(t) ==
    /\ Suspended(t)
    /\ adds[t].pc = "idle"
    /\ Len(passes[t].out) < Len(passes[t].lines)
    /\ lock' = Release(t)
    /\ passes' = [passes EXCEPT ![t] = IdlePass]
    /\ UNCHANGED <<scrollback, console, buffer, adds, nAdds, nRenders, produced, returned, before>>

(* ------------------------------- console ------------------------------ *)
\* the terminal of the Log's console is resized
Resize(w) ==
    /\ w # console
    /\ console' = w
    /\ UNCHANGED <<scrollback, buffer, lock, adds, passes, nAdds, nRenders, produced, returned, before>>

Next ==
    \/ \E t \in Threads : AddCall(t)
    \/ \E t \in Threads : AddAcquire(t)
    \/ \E t \in Threads : \E rs \in ArgLists : AddRender(t, rs)
    \/ \E t \in Threads : \E rs \in ArgLists : AddRenderRaise(t, rs)
    \/ \E t \in Threads : AddExtend(t)
    \/ \E t \in Threads : AddTrim(t)
    \/ \E t \in Threads : AddRelease(t)
    \/ \E t \in Threads : RenderCall(t)
    \/ \E t \in Threads : \E oh \in OptHeights : \E ch \in ConsoleHeights :
           RenderAcquire(t, oh, ch)
    \/ \E t \in Threads : RenderYield(t)
    \/ \E t \in Threads : RenderFinish(t)
    \/ \E t \in Threads : RenderClose(t)
    \/ \E w \in Widths : Resize(w)

Spec == Init /\ [][Next]_vars

\* the steps of thread t
ThreadNext(t) ==
    \/ AddCall(t)
    \/ AddAcquire(t)
    \/ \E rs \in ArgLists : AddRender(t, rs)
    \/ \E rs \in ArgLists : AddRenderRaise(t, rs)
    \/ AddExtend(t)
    \/ AddTrim(t)
    \/ AddRelease(t)
    \/ RenderCall(t)
    \/ \E oh \in OptHeights : \E ch \in ConsoleHeights : RenderAcquire(t, oh, ch)
    \/ RenderYield(t)
    \/ RenderFinish(t)
    \/ RenderClose(t)

\* the Log while its console keeps the width it has at construction
FixedWidthSpec == Init /\ [][\E t \in Threads : ThreadNext(t)]_vars

\* every thread is scheduled fairly: a thread that can take a step takes one
FairSpec == FixedWidthSpec /\ \A t \in Threads : WF_vars(ThreadNext(t))

(* ============================== claims ================================ *)
Range(s) == {s[i] : i \in DOMAIN s}

\* the last k elements of s (all of s when it is shorter)
LastK(s, k) == SubSeq(s, Len(s) - Min(k, Len(s)) + 1, Len(s))

IsSuffix(s, whole) == Len(s) <= Len(whole) /\ LastK(whole, Len(s)) = s

\* every add call that was started has returned or raised
AllReturned == \A t \in Threads : adds[t].pc = "idle"

\* a pass of thread t has read the buffer and is suspended at a yield or at the loop's end
Reading(t) == passes[t].pc = "yield"

\* the pass of thread t has emitted its last line
Emitted(t) == Reading(t) /\ Len(passes[t].out) = Len(passes[t].lines)

\* C1: for every scrollback that is a non-negative integer (0 included), once the
\* add calls have returned the buffer holds at most scrollback lines.
C1_AtMostScrollback ==
    (scrollback # None /\ AllReturned) => Len(buffer) <= scrollback

\* C2: for every scrollback k, once adds that produced more than k lines in total have
\* returned, the buffer holds exactly the k most recently produced lines, in order.
C2_MostRecentK ==
    (scrollback # None /\ AllReturned /\ Len(produced) > scrollback)
        => buffer = LastK(produced, scrollback)

\* the pass of thread t was given a viewport height: options.height is not None
Given(t) == passes[t].optHeight # None

\* C3: a render pass given viewport height h >= 0 (options.height = h) on a buffer of
\* n >= 0 lines emits exactly the last min(h, n) lines of the buffer, in buffer order.
C3_LastMinHN ==
    \A t \in Threads :
        (Emitted(t) /\ Given(t)) => passes[t].out = LastK(passes[t].seen, passes[t].optHeight)

\* thread t is inside the with block of add
InAdd(t) == adds[t].pc \in {"render", "extend", "trim", "release"}

\* the next step of the add call of thread t changes the buffer
Mutating(t) == adds[t].pc \in {"extend", "trim"}

\* no two add calls are inside the with block at the same time
AddsExclusive == \A t, u \in Threads : (t # u /\ InAdd(t)) => ~InAdd(u)

\* C4 (as claimed): no add mutates the buffer between the moment a render pass starts
\* reading the buffer and the moment it has emitted its last line, and no two add calls
\* mutate the buffer at the same time.
C4_NoInterleave ==
    /\ \A t, u \in Threads : (Reading(t) /\ ~Emitted(t)) => ~Mutating(u)
    /\ AddsExclusive

\* C4 (amended): no add of a thread other than the one that consumes the pass mutates
\* the buffer between the moment the pass starts reading the buffer and the moment it
\* has emitted its last line, and no two add calls mutate the buffer at the same time.
C4_NoForeignInterleave ==
    /\ \A t, u \in Threads : (t # u /\ Reading(t) /\ ~Emitted(t)) => ~InAdd(u)
    /\ AddsExclusive

\* a pass has emitted a line and has more to emit while another thread waits in add
C4_Witness ==
    \E t, u \in Threads :
        /\ t # u
        /\ Reading(t) /\ ~Emitted(t) /\ Len(passes[t].out) >= 1
        /\ adds[u].pc = "lock"

\* number of times x occurs in s
Count(s, x) == Cardinality({i \in DOMAIN s : s[i] = x})

\* C5: no update is lost and no line is duplicated: once all adds have returned, with
\* scrollback unset the buffer contains the lines of every added item exactly once, and
\* with scrollback = k its length is the minimum of k and the number of lines added.
C5_NoLostNoDuplicate ==
    AllReturned =>
        IF scrollback = None
        THEN /\ \A line \in Range(produced) : Count(buffer, line) = 1
             /\ Len(buffer) = Len(produced)
        ELSE Len(buffer) = Min(scrollback, Len(produced))

\* line a comes before line b in the item both belong to
Earlier(a, b) == a.arg < b.arg \/ (a.arg = b.arg /\ a.row < b.row)

\* the lines of s are in FIFO order of their items
Fifo(s) ==
    \A i, j \in DOMAIN s :
        i < j => /\ s[j].item \notin before[s[i].item]
                 /\ s[i].item = s[j].item => Earlier(s[i], s[j])

\* C6: if add(A) returns before add(B) starts, no line of B precedes a line of A in the
\* buffer or in the output of a render pass, and the lines of one item keep their order.
C6_Fifo == Fifo(buffer) /\ \A t \in Threads : Fifo(passes[t].out)

\* a pass has emitted lines of an item A and then of an item B added after A returned
C6_Witness ==
    \E t \in Threads :
        /\ Len(passes[t].out) >= 2
        /\ passes[t].out[1].item \in before[passes[t].out[Len(passes[t].out)].item]

\* C7: when scrollback is None no line is ever dropped: the buffer holds every line
\* produced by the add calls, so its length is the number of lines produced.
C7_NothingDropped ==
    scrollback = None => (buffer = produced /\ Len(buffer) = Len(produced))

\* two adds have returned and left more lines than any scrollback of the model
C7_Witness ==
    /\ scrollback = None
    /\ AllReturned
    /\ Cardinality(returned) >= 2
    /\ Len(buffer) > MaxScrollback

\* thread t is about to leave add (the buffer is as add leaves it)
Returning(t) == adds[t].pc = "release"

\* C8 (as claimed): add leaves the rendered-line buffer unchanged.
C8_AddLeavesBuffer ==
    \A t \in Threads : Returning(t) => buffer = adds[t].seen

\* what `del s[: -scrollback]` keeps of s: its last scrollback lines when scrollback is
\* a positive integer, and all of it when scrollback is None or 0
Kept(s) == IF scrollback = None \/ scrollback = 0 THEN s ELSE LastK(s, scrollback)

\* C8 (amended): add itself renders its renderables and changes the buffer: when it
\* returns, the buffer is the buffer it found extended by the lines of its renderables
\* and trimmed by `del buffer[: -scrollback]`; nothing is left pending.
C8_AddExtendsAndTrims ==
    \A t \in Threads :
        Returning(t) => buffer = Kept(adds[t].seen \o adds[t].rendered_lines)

\* an add is about to return with lines it appended to a buffer that was not empty
C8_Witness ==
    \E t \in Threads :
        Returning(t) /\ adds[t].seen # <<>> /\ adds[t].rendered_lines # <<>>

\* the lines of the renderables of the add call of thread t, rendered at the width the
\* Log's console had when add rendered them
AtInsertion(t) ==
    Rendered(adds[t].id, adds[t].renderables, Len(adds[t].renderables), adds[t].width)

\* every line a pass has emitted is a line stored by an add
EmitsStored == \A t \in Threads : Range(passes[t].out) \subseteq Range(produced)

Retained(lines) ==
    IF scrollback # None /\ scrollback >= 1 /\ Len(lines) > scrollback
    THEN LastK(lines, scrollback)
    ELSE lines

C10_Snapshot ==
    \A t \in Threads :
        Reading(t) => /\ IsSuffix(passes[t].lines, passes[t].seen)
                      /\ passes[t].out = SubSeq(passes[t].lines, 1, Len(passes[t].out))

\* the line a pass emits next was evicted from the buffer by an add made since the
\* pass read the buffer
C10_Witness ==
    \E t \in Threads :
        /\ Reading(t) /\ ~Emitted(t) /\ Len(passes[t].out) >= 1
        /\ passes[t].lines[Len(passes[t].out) + 1] \notin Range(buffer)

\* thread t is in a call of the Log: it waits for the lock, is inside add, or consumes
\* a render pass that has taken the lock
Busy(t) == adds[t].pc # "idle" \/ passes[t].pc # "idle"

Converted(t) == adds[t].pc \in {"extend", "trim", "release"}

\* C12: the Log itself has no failing operation: for every scrollback, buffer and height,
\* an add whose conversion succeeded can always take its next step and ends only by
\* returning, and a render pass holds a sequence of buffer lines, empty when the buffer
\* is empty, that its consumer can always take further or exhaust.
C12_NoFailingOperation ==
    /\ [](\A t \in Threads :
            /\ Converted(t) => ENABLED (AddExtend(t) \/ AddTrim(t) \/ AddRelease(t))
            /\ Reading(t) =>
                   /\ IsSuffix(passes[t].lines, passes[t].seen)
                   /\ passes[t].seen = <<>> => passes[t].lines = <<>>
                   /\ adds[t].pc = "idle" => ENABLED (RenderYield(t) \/ RenderFinish(t)))
    /\ [][\A t \in Threads :
            (Converted(t) /\ adds'[t].pc = "idle") => adds[t].id \in returned']_vars

\* with scrollback 0 an add has returned and a pass of height 0 has emitted its lines
C12_Witness ==
    /\ scrollback = 0
    /\ returned # {}
    /\ \E t \in Threads : Emitted(t) /\ passes[t].height = 0

\* C13: when the render options give no height, the height used is the height of the
\* console passed to the render call, so the pass emits the last min(console.height, n)
\* lines of the n-line buffer it read.
C13_ConsoleHeight ==
    \A t \in Threads :
        (Emitted(t) /\ ~Given(t)) => passes[t].out = LastK(passes[t].seen, passes[t].height)

\* the add call of thread t ends with the exception of a failed conversion
Raises(t) == adds[t].pc = "render" /\ adds'[t].pc = "idle"

\* C14: if converting a renderable fails inside add, the call is all-or-nothing and
\* releases the lock: the buffer stays exactly as the call found it (nothing appended,
\* nothing trimmed), the lock is given back once, and it is free for every thread unless
\* the caller is itself inside a render pass it consumes.
C14_AllOrNothing ==
    [][\A t \in Threads :
          Raises(t) =>
              /\ buffer = adds[t].seen
              /\ buffer' = buffer
              /\ produced' = produced
              /\ lock'.count = lock.count - 1
              /\ ~Reading(t) => lock' = [owner |-> NoThread, count |-> 0]]_vars

\* one add call has returned and another has raised: the buffer is kept and the lock free
C14_Witness ==
    /\ AllReturned
    /\ returned # {}
    /\ nAdds > Cardinality(returned)
    /\ buffer # <<>>
    /\ lock.owner = NoThread

(* the deferred design: add enqueues, a render pass flushes the pending items *)
\* the line buffer of the deferred design after a render pass has flushed the pending
\* items, all being the lines of every item added so far: if scrollback is set and the
\* buffer is longer, lines are dropped from the front until its length is scrollback
DeferredBuffer(all) ==
    IF scrollback # None /\ Len(all) > scrollback THEN LastK(all, scrollback) ELSE all

\* the height of the deferred render: the one given, or the ambient height if none is
DeferredHeight(t) == IF Given(t) THEN passes[t].optHeight ELSE passes[t].height

\* what the deferred render returns: the last height lines, or fewer if there are fewer
DeferredRender(all, height) == LastK(DeferredBuffer(all), height)

\* the pass of thread t has just read the buffer: it has emitted no line yet
JustRead(t) == Reading(t) /\ passes[t].out = <<>>

\* C15: for a fixed render width the eager implementation is observationally equivalent
\* to the deferred design: for every scrollback and every sequence of add and render calls
\* a render pass reads the lines the deferred render returns for the items added so far.
C15_EagerEqualsDeferred ==
    \A t \in Threads :
        JustRead(t) => passes[t].lines = DeferredRender(produced, DeferredHeight(t))

\* the lines of add call id in s
ItemLines(s, id) == SelectSeq(s, LAMBDA line : line.item = id)

\* the lines of every add call lie next to each other in s
Contiguous(s) ==
    \A i, j \in DOMAIN s :
        (i < j /\ s[i].item = s[j].item) => \A k \in i..j : s[k].item = s[i].item

\* the lines of an add call follow the order of its arguments, row after row
InArgOrder(s) ==
    \A i \in 1..(Len(s) - 1) :
        s[i].item = s[i + 1].item =>
            \/ s[i + 1].arg = s[i].arg /\ s[i + 1].row = s[i].row + 1
            \/ s[i + 1].arg = s[i].arg + 1 /\ s[i + 1].row = 1

\* no add call has only some of its lines in s, unless the front of s was trimmed: its
\* lines end with its last line and, after the lines of another call, start with its first
Whole(s) ==
    \A i \in DOMAIN s :
        /\ (i > 1 /\ s[i - 1].item # s[i].item) => (s[i].arg = 1 /\ s[i].row = 1)
        /\ (i = Len(s) \/ s[i + 1].item # s[i].item) =>
               s[i] = ItemLines(produced, s[i].item)[Len(ItemLines(produced, s[i].item))]

\* C16: a single add call with several renderables is atomic: its lines are appended
\* contiguously and in argument order, with no line of a concurrent add call between
\* them, and no render pass observes the buffer with only some of them appended or with
\* more than scrollback lines.
C16_AtomicAdd ==
    /\ Contiguous(buffer) /\ InArgOrder(buffer)
    /\ \A t \in Threads :
           Reading(t) =>
               /\ Whole(passes[t].seen)
               /\ scrollback # None => Len(passes[t].seen) <= scrollback

\* a step of a render pass: the call, taking the lock, a yield, the end or the close
PassStep == passes' # passes

====
